---- MODULE Spec2Model ----
(***************************************************************************)
(* pypkarr: the DHT lookup engine (src/src/client.py) and the values it    *)
(* works on, the signed packets of src/src/signed_packet.py among them.    *)
(*                                                                         *)
(* Python strings are sequences of one-character strings, byte strings are *)
(* sequences of numbers in 0..255, so that split, int(), slicing and the   *)
(* z-base-32 codec are computed the way the code computes them.            *)
(***************************************************************************)
EXTENDS Integers, Sequences, FiniteSets, TLC

VARIABLES
    cache,           \* PkarrClient.cache: [present, entries]; __init__ never sets it
    known_nodes,     \* PkarrClient.known_nodes
    now,             \* time.time(), whole seconds
    pc,              \* "idle" | "loop" | "done": where the lookup call stands
    public_key,      \* lookup argument: the key text
    max_attempts,    \* lookup argument
    timeout,         \* lookup argument
    nodes_to_query,  \* lookup local: the frontier
    queried_nodes,   \* lookup local
    start_time,      \* lookup local
    attempts,        \* lookup local
    log,             \* the attempts of this lookup, in order
    outcome,         \* how the lookup call ended
    calls,           \* number of lookup calls made so far
    bootstrap_nodes, \* PkarrClient.bootstrap_nodes, a list
    maintenance,     \* "off" | "sleeping": where the maintain_network task stands
    made,            \* the last operation on packets and what it gave
    buffer,          \* the signed-packet bytes in hand, as from_bytes slices them
    tasks            \* the lookups in flight at once, one record of locals each

vars == <<cache, known_nodes, now, pc, public_key, max_attempts, timeout,
          nodes_to_query, queried_nodes, start_time, attempts, log,
          outcome, calls, bootstrap_nodes, maintenance, made, buffer, tasks>>

(***************************************************************************)
(* Bounds of the model.                                                    *)
(***************************************************************************)
MaxCalls == 2
MaxTime == 12
MaxIdle == 2
MaxAttemptsArg == 2
MaxTasks == 2

(***************************************************************************)
(* Program constants.                                                      *)
(***************************************************************************)
SOCKET_TIMEOUT == 5
DEFAULT_MINIMUM_TTL == 300
DEFAULT_MAXIMUM_TTL == 86400
KEY_BYTES == 32
NODE_RECORD == 26

(***************************************************************************)
(* Small helpers on sequences.                                             *)
(***************************************************************************)
Range(s) == {s[i] : i \in DOMAIN s}

Slice(s, a, b) ==
    \* Python s[a:b] for 0 <= a, with clipping at len(s)
    LET hi == IF b < Len(s) THEN b ELSE Len(s)
    IN  IF a >= hi THEN <<>> ELSE SubSeq(s, a + 1, hi)

Pow2(n) == 2 ^ n

RECURSIVE Split(_, _)
Split(s, sep) ==
    \* str.split(sep): the pieces between the occurrences of sep
    IF \A i \in DOMAIN s : s[i] # sep
    THEN <<s>>
    ELSE LET k == CHOOSE i \in DOMAIN s : s[i] = sep /\ \A j \in 1..(i - 1) : s[j] # sep
         IN  <<SubSeq(s, 1, k - 1)>> \o Split(SubSeq(s, k + 1, Len(s)), sep)

Digits == <<"0", "1", "2", "3", "4", "5", "6", "7", "8", "9">>

RECURSIVE DecStr(_)
DecStr(n) ==
    \* str(n) for n >= 0
    IF n < 10 THEN <<Digits[n + 1]>> ELSE DecStr(n \div 10) \o <<Digits[(n % 10) + 1]>>

IsInt(s) ==
    \* int(s) succeeds (decimal digits; signs, blanks and underscores are left out)
    s # <<>> /\ \A i \in DOMAIN s : s[i] \in Range(Digits)

(***************************************************************************)
(* Crypto.z_base_32_decode and PublicKey.__init__                          *)
(***************************************************************************)
Z32Alphabet ==
    <<"y", "b", "n", "d", "r", "f", "g", "8", "e", "j", "k", "m", "c", "p", "q", "x",
      "o", "t", "1", "u", "w", "i", "s", "z", "a", "3", "4", "5", "h", "7", "6", "9">>

Z32Index(c) == (CHOOSE i \in DOMAIN Z32Alphabet : Z32Alphabet[i] = c) - 1

RECURSIVE Z32DecodeFrom(_, _, _, _)
Z32DecodeFrom(encoded, i, bits, value) ==
    \* the loop of z_base_32_decode from character i on; value is kept below
    \* 2^bits, which leaves (value >> bits) & 255 as the code computes it
    IF i > Len(encoded) THEN <<>>
    ELSE LET v == value * 32 + Z32Index(encoded[i])
             b == bits + 5
         IN  IF b >= 8
             THEN <<(v \div Pow2(b - 8)) % 256>>
                      \o Z32DecodeFrom(encoded, i + 1, b - 8, v % Pow2(b - 8))
             ELSE Z32DecodeFrom(encoded, i + 1, b, v)

z_base_32_decode(encoded) ==
    \* [ok, error, bytes]: alphabet_map[char] raises KeyError on a foreign character
    IF \E i \in DOMAIN encoded : encoded[i] \notin Range(Z32Alphabet)
    THEN [ok |-> FALSE, error |-> "KeyError", bytes |-> <<>>]
    ELSE [ok |-> TRUE, error |-> "", bytes |-> Z32DecodeFrom(encoded, 1, 0, 0)]

PublicKeyFromStr(key) ==
    \* PublicKey(key) for a str: only ValueError is turned into PublicKeyError,
    \* and the decoded length is not checked on this branch
    LET d == z_base_32_decode(key)
    IN  IF d.ok THEN [ok |-> TRUE, error |-> "", key |-> d.bytes]
        ELSE [ok |-> FALSE, error |-> d.error, key |-> <<>>]

PublicKeyFromBytes(key) ==
    IF Len(key) # KEY_BYTES
    THEN [ok |-> FALSE, error |-> "PublicKeyError", key |-> <<>>]
    ELSE [ok |-> TRUE, error |-> "", key |-> key]

(***************************************************************************)
(* Node addresses: the parsing at the head of _request_packet.             *)
(***************************************************************************)
ParseNode(node) ==
    \* lines 81-87: [ok, host, port]; a failure is a ValueError raised before
    \* the socket exists
    LET at == Split(node, "@")
        ip_port == IF Len(at) = 1 THEN node ELSE at[2]
        hp == Split(ip_port, ":")
    IN  IF Len(at) > 2 \/ Len(hp) # 2 \/ ~IsInt(hp[2])
        THEN [ok |-> FALSE, host |-> <<>>, port |-> <<>>]
        ELSE [ok |-> TRUE, host |-> hp[1], port |-> hp[2]]

(***************************************************************************)
(* PkarrClient._decode_nodes                                               *)
(***************************************************************************)
inet_ntoa(b) == DecStr(b[1]) \o <<".">> \o DecStr(b[2]) \o <<".">> \o DecStr(b[3]) \o <<".">> \o DecStr(b[4])

NodeText(ip, port) == inet_ntoa(ip) \o <<":">> \o DecStr(port)

RECURSIVE DecodeNodesFrom(_, _)
DecodeNodesFrom(nodes_data, i) ==
    \* the loop of _decode_nodes from offset i: [ok, nodes]; inet_ntoa and
    \* struct.unpack raise on a slice of the wrong length
    IF i >= Len(nodes_data) THEN [ok |-> TRUE, nodes |-> <<>>]
    ELSE LET ip == Slice(nodes_data, i + 20, i + 24)
             pt == Slice(nodes_data, i + 24, i + 26)
         IN  IF Len(ip) # 4 \/ Len(pt) # 2 THEN [ok |-> FALSE, nodes |-> <<>>]
             ELSE LET rest == DecodeNodesFrom(nodes_data, i + NODE_RECORD)
                  IN  [ok |-> rest.ok,
                       nodes |-> IF rest.ok
                                 THEN <<NodeText(ip, pt[1] * 256 + pt[2])>> \o rest.nodes
                                 ELSE <<>>]

DecodeNodes(nodes_data) == DecodeNodesFrom(nodes_data, 0)

(***************************************************************************)
(* Signed packets.  A signature is held by what the Ed25519 provider makes *)
(* of it: its length, the key it was made for and the bytes it covers.     *)
(***************************************************************************)
RECURSIVE DecBytes(_)
DecBytes(n) ==
    \* str(n).encode()
    IF n < 10 THEN <<48 + n>> ELSE DecBytes(n \div 10) \o <<48 + (n % 10)>>

signable(timestamp, v) ==
    \* b"3:seqi" + ts + b"e1:v" + len + b":" + v
    <<51, 58, 115, 101, 113, 105>> \o DecBytes(timestamp) \o <<101, 49, 58, 118>>
        \o DecBytes(Len(v)) \o <<58>> \o v

CryptoSign(public, message) == [len |-> 64, by |-> public, over |-> message]

CryptoVerify(public, message, signature) ==
    signature.len = 64 /\ signature.by = public /\ signature.over = message

RECURSIVE AnswersWire(_)
AnswersWire(answers) ==
    \* one record on the wire: root name, type A, class IN, ttl, no rdata
    IF answers = <<>> THEN <<>>
    ELSE LET t == answers[1].ttl
         IN  <<0, 0, 1, 0, 1, (t \div 16777216) % 256, (t \div 65536) % 256,
               (t \div 256) % 256, t % 256, 0, 0>>
             \o AnswersWire(Tail(answers))

to_wire(packet) ==
    \* the DNS message of packet.py lines 30-44 on the wire: the header of a reply
    \* with qr and aa set (flags 0x8400), then the answers
    <<0, 0, 132, 0, 0, 0, 0, Len(packet.answers), 0, 0, 0, 0>> \o AnswersWire(packet.answers)

None == [kind |-> "none", error |-> "", bytes |-> <<>>]

build_bytes_vec_compressed(packet) ==
    \* packet.py, Packet.build_bytes_vec_compressed: line 52 appends a tuple to
    \* msg.answer, which to_wire (line 54) cannot render; line 56 turns the
    \* failure into PacketError.  Without answers the message is its header.
    IF packet.answers = <<>>
    THEN [kind |-> "bytes", error |-> "", bytes |-> to_wire(packet)]
    ELSE [kind |-> "raise", error |-> "PacketError", bytes |-> <<>>]

placeholder_build_bytes_vec_compressed(packet) ==
    \* signed_packet.py, Packet.build_bytes_vec_compressed: the body is `pass`
    None

PacketClasses == {"packet.Packet", "signed_packet.Packet"}

Build(cls, packet) ==
    \* packet.build_bytes_vec_compressed() for a packet of class cls
    IF cls = "packet.Packet" THEN build_bytes_vec_compressed(packet)
    ELSE placeholder_build_bytes_vec_compressed(packet)

MinTtl(answers) ==
    CHOOSE t \in {answers[i].ttl : i \in DOMAIN answers} :
        \A i \in DOMAIN answers : t <= answers[i].ttl

ttl_without_floor(sp, min_ttl, max_ttl) ==
    \* the result capped by max_ttl but not raised to min_ttl
    IF sp.packet.answers = <<>> THEN min_ttl
    ELSE LET m == MinTtl(sp.packet.answers)
         IN  IF max_ttl < m THEN max_ttl ELSE m

ttl(sp, min_ttl, max_ttl) ==
    \* SignedPacket.ttl
    IF sp.packet.answers = <<>> THEN min_ttl
    ELSE LET m == MinTtl(sp.packet.answers)
             capped == IF max_ttl < m THEN max_ttl ELSE m
         IN  IF min_ttl > capped THEN min_ttl ELSE capped

Verified(sp) ==
    \* the check of SignedPacket.from_bytes, lines 72-74
    CryptoVerify(sp.public_key, signable(sp.timestamp, to_wire(sp.packet)), sp.signature)

SignedPacketInit(args) ==
    \* the dataclass SignedPacket has five fields without defaults
    IF Len(args) # 5
    THEN [ok |-> FALSE, error |-> "TypeError", packet |-> <<>>]
    ELSE [ok |-> TRUE, error |-> "",
          packet |-> <<[public_key |-> args[1], signature |-> args[2], timestamp |-> args[3],
                        packet |-> args[4], last_seen |-> args[5]]>>]

DummySignature == [len |-> 15, by |-> <<>>, over |-> <<>>]

EmptyPacket == [answers |-> <<>>]

(***************************************************************************)
(* PkarrClient._connect_to_peers                                           *)
(***************************************************************************)
RECURSIVE ConnectFrom(_, _, _, _)
ConnectFrom(peer_values, target_key, i, peer_bound) ==
    \* the for loop from peer i on; peer_bound: the local `peer` has a value,
    \* which the except clause reads
    IF i > Len(peer_values) THEN [kind |-> "return", error |-> "", packet |-> <<>>]
    ELSE LET pv == peer_values[i]
             parsed == Len(Slice(pv, 0, 4)) = 4 /\ Len(Slice(pv, 4, Len(pv))) = 2
             dummy == SignedPacketInit(<<target_key, DummySignature, EmptyPacket>>)
         IN  IF ~parsed
             THEN IF peer_bound
                  THEN ConnectFrom(peer_values, target_key, i + 1, TRUE)
                  ELSE [kind |-> "raise", error |-> "UnboundLocalError", packet |-> <<>>]
             ELSE IF dummy.ok
                  THEN [kind |-> "return", error |-> "", packet |-> dummy.packet]
                  ELSE ConnectFrom(peer_values, target_key, i + 1, TRUE)

ConnectToPeers(peer_values, target_key) == ConnectFrom(peer_values, target_key, 1, FALSE)

(***************************************************************************)
(* PkarrClient._request_packet.  A reply is what recvfrom and              *)
(* bencodepy.decode hand back: kind "timeout" (socket.timeout),            *)
(* "unreachable" (sendto fails), "garbage" (decode fails) or "dict" with   *)
(* the keys the code reads: y, r, r.values, r.nodes.                       *)
(***************************************************************************)
Result(value, nodes, packet, was_sent, learned) ==
    [kind |-> "return", error |-> "", value |-> value, nodes |-> nodes, packet |-> packet,
     sent |-> was_sent, learned |-> learned]

Raised(error, was_sent) ==
    [kind |-> "raise", error |-> error, value |-> "none", nodes |-> <<>>, packet |-> <<>>,
     sent |-> was_sent, learned |-> {}]

ReturnNone(was_sent) == Result("none", <<>>, <<>>, was_sent, {})

IsErrorReplyNever(reply) ==
    \* the test of line 122 left out
    FALSE

IsErrorReply(reply) ==
    \* line 122: response.get(b'y') == b'e'
    reply.y = "e"

UpdateKnownNodesReplacing(known, new_nodes) ==
    \* the set replaced by the new nodes instead of updated with them
    new_nodes

UpdateKnownNodes(known, new_nodes) ==
    \* line 209: self.known_nodes.update(new_nodes), one step of the interpreter
    known \cup new_nodes

RequestPacketBody(node, target_key, reply) ==
    \* lines 77-153 with the three parameters bound
    IF ~ParseNode(node).ok
    THEN \* ValueError before the socket exists: the except clause and then the
         \* finally clause read locals that have no value yet
         Raised("UnboundLocalError", FALSE)
    ELSE IF reply.kind = "unreachable" THEN ReturnNone(FALSE)
    ELSE IF reply.kind \in {"timeout", "garbage"} THEN ReturnNone(TRUE)
    ELSE IF reply.has_r /\ reply.has_nodes /\ ~DecodeNodes(reply.nodes).ok
    THEN \* _decode_response decodes r.nodes for the log and raises
         ReturnNone(TRUE)
    ELSE IF IsErrorReply(reply) THEN ReturnNone(TRUE)
    ELSE IF reply.has_r /\ reply.has_values
    THEN LET got == ConnectToPeers(reply.values, target_key)
         IN  IF got.kind = "return" /\ got.packet # <<>>
             THEN Result("packet", <<>>, got.packet, TRUE, {})
             ELSE ReturnNone(TRUE)
    ELSE IF reply.has_r /\ reply.has_nodes
    THEN LET decoded_nodes == DecodeNodes(reply.nodes).nodes
         IN  Result("nodes", decoded_nodes, <<>>, TRUE, Range(decoded_nodes))
    ELSE ReturnNone(TRUE)

RequestPacket(args, reply) ==
    \* the call self._request_packet(*args): the method takes node, target_key
    \* and record_type, all required
    IF Len(args) # 3 THEN Raised("TypeError", FALSE)
    ELSE RequestPacketBody(args[1], args[2], reply)

(***************************************************************************)
(* lookup, lines 51-55: caching a found packet.                            *)
(***************************************************************************)
ClientModuleNames ==
    \* the names bound at the top level of client.py (its imports and its class)
    {"asyncio", "random", "List", "Optional", "Union", "SignedPacket", "Keypair",
     "PublicKey", "ResourceRecord", "Packet", "PkarrError", "logging", "socket",
     "struct", "hashlib", "bencodepy", "json", "time", "PkarrClient"}

CacheStoreBound(c, key, result, t) ==
    [ok |-> TRUE, error |-> "",
     cache |-> [present |-> TRUE,
                entries |-> [k \in (DOMAIN c.entries) \cup {key} |->
                               IF k = key
                               THEN [packet |-> result,
                                     expiration |-> t + ttl(result, DEFAULT_MINIMUM_TTL,
                                                            DEFAULT_MAXIMUM_TTL)]
                               ELSE c.entries[k]]]]

CacheStoreBeforeRaise(c, key, result, t) ==
    \* the entry written before the unbound names are read
    [ok |-> FALSE, error |-> "NameError", cache |-> CacheStoreBound(c, key, result, t).cache]

CacheStore(c, key, result, t) ==
    \* line 54: the right-hand side is evaluated first and reads two names that
    \* client.py does not bind
    IF {"DEFAULT_MINIMUM_TTL", "DEFAULT_MAXIMUM_TTL"} \subseteq ClientModuleNames
    THEN CacheStoreBound(c, key, result, t)
    ELSE [ok |-> FALSE, error |-> "NameError", cache |-> c]

PkarrErrors ==
    \* errors.py: the subclasses of PkarrError
    {"PkarrError", "KeypairError", "PublicKeyError", "SignatureError", "PacketError",
     "DNSError", "DHTError", "InvalidSignedPacketBytesLength", "InvalidRelayPayloadSize",
     "PacketTooLarge", "DHTIsShutdown", "PublishInflight"}

(***************************************************************************)
(* The values the model draws its inputs from.                             *)
(***************************************************************************)
NodeA == NodeText(<<10, 0, 0, 1>>, 1)
NodeB == NodeText(<<10, 0, 0, 2>>, 1)
NodeC == NodeText(<<10, 0, 0, 3>>, 1)
NodeD == NodeText(<<10, 0, 0, 4>>, 1)
NodeNoPort == <<"h", "o", "s", "t">>
NodeWithId == <<"x", "@">> \o NodeA     \* id@host:port, the address of NodeA

BootstrapLists == {<<NodeA, NodeB>>, <<NodeA>>, <<NodeA, NodeNoPort>>, <<NodeWithId>>, <<>>}

Compact(ip, port) == [i \in 1..20 |-> 0] \o ip \o <<port \div 256, port % 256>>

CompactA == Compact(<<10, 0, 0, 1>>, 1)
CompactB == Compact(<<10, 0, 0, 2>>, 1)
CompactC == Compact(<<10, 0, 0, 3>>, 1)
CompactD == Compact(<<10, 0, 0, 4>>, 1)

PeerValue == <<10, 0, 0, 9, 0, 7>>
ShortPeerValue == <<10, 0, 0>>

Reply(kind, y, has_r, has_values, values, has_nodes, nodes) ==
    [kind |-> kind, y |-> y, has_r |-> has_r, has_values |-> has_values, values |-> values,
     has_nodes |-> has_nodes, nodes |-> nodes]

NoDict(kind) == Reply(kind, "", FALSE, FALSE, <<>>, FALSE, <<>>)
NodesReply(nodes) == Reply("dict", "r", TRUE, FALSE, <<>>, TRUE, nodes)
ValuesReply(values) == Reply("dict", "r", TRUE, TRUE, values, FALSE, <<>>)
ErrorReply == Reply("dict", "e", FALSE, FALSE, <<>>, FALSE, <<>>)

Replies ==
    {NoDict("timeout"), NoDict("unreachable"), NoDict("garbage"), ErrorReply,
     Reply("dict", "r", TRUE, FALSE, <<>>, FALSE, <<>>),
     NodesReply(CompactC \o CompactD),
     NodesReply(CompactA \o CompactB \o CompactC),
     NodesReply(<<>>),
     NodesReply(CompactC \o <<1>>),
     ValuesReply(<<PeerValue>>),
     ValuesReply(<<ShortPeerValue, PeerValue>>),
     ValuesReply(<<PeerValue, ShortPeerValue>>),
     Reply("dict", "r", TRUE, TRUE, <<PeerValue>>, TRUE, CompactC \o CompactD),
     Reply("dict", "e", TRUE, FALSE, <<>>, TRUE, CompactD)}

KeyText == [i \in 1..52 |-> "y"]
OtherKeyText == [i \in 1..52 |-> IF i = 1 THEN "b" ELSE "y"]
ShortKeyText == <<"y", "b">>
ForeignKeyText == <<"y", "0">>

KeyTexts == {KeyText, ShortKeyText, ForeignKeyText}

PublicKeyOf == [k \in KeyTexts \cup {OtherKeyText} |-> PublicKeyFromStr(k)]

SignedBy(key, timestamp, answers) ==
    \* a packet as SignedPacket.from_packet makes it for the holder of key
    [public_key |-> key,
     signature |-> CryptoSign(key, signable(timestamp, to_wire([answers |-> answers]))),
     timestamp |-> timestamp, packet |-> [answers |-> answers], last_seen |-> timestamp]

GoodPacket == SignedBy(PublicKeyOf[KeyText].key, 7, <<[ttl |-> 10], [ttl |-> 400]>>)
LongPacket == SignedBy(PublicKeyOf[KeyText].key, 8, <<[ttl |-> 500]>>)
DummyPacket ==
    [public_key |-> PublicKeyOf[KeyText].key, signature |-> DummySignature,
     timestamp |-> 0, packet |-> EmptyPacket, last_seen |-> 0]

Entries(keys, packet, expiration) ==
    [k \in keys |-> [packet |-> packet, expiration |-> expiration]]

AttachableCaches ==
    \* what the cache of the data model holds: verified packets and their expirations
    {Entries({}, GoodPacket, 0), Entries({KeyText}, GoodPacket, 2),
     Entries({KeyText}, LongPacket, 400)}

(***************************************************************************)
(* SignedPacket (signed_packet.py): from_packet, as_bytes, from_bytes.     *)
(*                                                                         *)
(* A byte buffer of a signed packet is held by the four slices from_bytes  *)
(* takes of it: data[:32], data[32:96], data[96:104], data[104:].  The     *)
(* second slice is a signature as the Ed25519 provider sees it; the others *)
(* are byte strings.                                                       *)
(***************************************************************************)
MIN_SIGNED_BYTES == 104
MAX_SIGNED_BYTES == 1104
MAX_ENCODED_BYTES == 1000
SIGNATURE_BYTES == 64
MICROSECONDS == 1000000

Buffer(key, signature, timestamp, encoded_packet) ==
    [public_key |-> key, signature |-> signature, timestamp |-> timestamp,
     encoded_packet |-> encoded_packet]

BufferLen(data) ==
    \* len(data)
    Len(data.public_key) + data.signature.len + Len(data.timestamp) + Len(data.encoded_packet)

RECURSIVE ToBytesFrom(_, _)
ToBytesFrom(n, width) ==
    \* n.to_bytes(width, 'big')
    IF width = 0 THEN <<>> ELSE ToBytesFrom(n \div 256, width - 1) \o <<n % 256>>

RECURSIVE FromBytesBig(_)
FromBytesBig(b) ==
    \* int.from_bytes(b, 'big')
    IF b = <<>> THEN 0 ELSE FromBytesBig(SubSeq(b, 1, Len(b) - 1)) * 256 + b[Len(b)]

Made(sp) == [ok |-> TRUE, error |-> "", detail |-> "", packet |-> <<sp>>, checked |-> TRUE]

Failed(error, detail, checked) ==
    [ok |-> FALSE, error |-> error, detail |-> detail, packet |-> <<>>, checked |-> checked]

KeypairOf(public) ==
    \* keypair.py, Keypair: public_key is an attribute set by __init__ (line 10)
    [public_key |-> public]

KeypairMethods ==
    \* keypair.py: what a Keypair can be called for
    {"random", "from_secret_key", "sign", "verify", "to_bytes", "from_bytes"}

PlaceholderPublicKeyAttributes ==
    \* signed_packet.py lines 7-13: the PublicKey that from_bytes constructs
    {"key", "to_z32"}

from_packet(keypair, cls, packet, t) ==
    \* lines 42-58, for a packet of class cls at time t
    LET timestamp == t * MICROSECONDS
        encoded_packet == Build(cls, packet)
    IN  IF encoded_packet.kind = "raise" THEN Failed(encoded_packet.error, "", FALSE)
        ELSE IF encoded_packet.kind = "none"
        THEN \* line 47: len(None)
             Failed("TypeError", "len(None)", FALSE)
        ELSE IF Len(encoded_packet.bytes) > MAX_ENCODED_BYTES
        THEN Failed("ValueError", "Packet too large", FALSE)
        ELSE IF "public_key" \notin KeypairMethods
        THEN \* line 53 calls keypair.public_key, which is a PublicKey object
             Failed("TypeError", "public_key is not callable", FALSE)
        ELSE Made([public_key |-> keypair.public_key,
                   signature |-> CryptoSign(keypair.public_key,
                                            signable(timestamp, encoded_packet.bytes)),
                   timestamp |-> timestamp, packet |-> packet, last_seen |-> timestamp])

ParsedPacket(data, t) ==
    \* lines 76-84: the packet is Packet([]) whatever the encoded packet holds
    [public_key |-> data.public_key, signature |-> data.signature,
     timestamp |-> FromBytesBig(data.timestamp), packet |-> [answers |-> <<>>],
     last_seen |-> t * MICROSECONDS]

from_bytes_unverified(data, t) ==
    \* from_bytes without the signature check of lines 72-74
    IF BufferLen(data) < MIN_SIGNED_BYTES
    THEN Failed("ValueError", "Invalid SignedPacket bytes length", FALSE)
    ELSE IF BufferLen(data) > MAX_SIGNED_BYTES
    THEN Failed("ValueError", "Packet too large", FALSE)
    ELSE Made(ParsedPacket(data, t))

from_bytes(data, t) ==
    \* lines 60-84
    IF BufferLen(data) < MIN_SIGNED_BYTES
    THEN Failed("ValueError", "Invalid SignedPacket bytes length", FALSE)
    ELSE IF BufferLen(data) > MAX_SIGNED_BYTES
    THEN Failed("ValueError", "Packet too large", FALSE)
    ELSE IF "verify" \notin PlaceholderPublicKeyAttributes
    THEN \* line 73: the PublicKey of signed_packet.py has no verify
         Failed("AttributeError", "verify", FALSE)
    ELSE IF ~CryptoVerify(data.public_key,
                          signable(FromBytesBig(data.timestamp), data.encoded_packet),
                          data.signature)
    THEN Failed("ValueError", "Invalid signature", TRUE)
    ELSE Made(ParsedPacket(data, t))

as_bytes(cls, sp) ==
    \* lines 86-92, for a signed packet whose packet is of class cls
    LET encoded_packet == Build(cls, sp.packet)
    IN  IF encoded_packet.kind = "raise"
        THEN [ok |-> FALSE, error |-> encoded_packet.error, data |-> <<>>]
        ELSE IF encoded_packet.kind = "none"
        THEN \* bytes + None
             [ok |-> FALSE, error |-> "TypeError", data |-> <<>>]
        ELSE [ok |-> TRUE, error |-> "",
              data |-> <<Buffer(sp.public_key, sp.signature, ToBytesFrom(sp.timestamp, 8),
                                encoded_packet.bytes)>>]

RoundTrip(keypair, cls, packet, t) ==
    \* from_bytes(from_packet(keypair, packet).as_bytes())
    LET signed == from_packet(keypair, cls, packet, t)
    IN  IF ~signed.ok THEN signed
        ELSE LET bytes == as_bytes(cls, signed.packet[1])
             IN  IF ~bytes.ok THEN Failed(bytes.error, "", FALSE)
                 ELSE from_bytes(bytes.data[1], t)

(***************************************************************************)
(* The packets, keys and buffers the operations are applied to.            *)
(***************************************************************************)
Keypairs == {KeypairOf(PublicKeyOf[KeyText].key), KeypairOf(PublicKeyOf[OtherKeyText].key)}

Answers(n, record_ttl) == [i \in 1..n |-> [ttl |-> record_ttl]]

BigPacket == [answers |-> Answers(90, 300)]

Packets == {EmptyPacket, GoodPacket.packet, BigPacket}

Zeros(n) == [i \in 1..n |-> 0]

SignedBuffer(key, timestamp, encoded_packet) ==
    \* the bytes a holder of key publishes for an encoded packet
    Buffer(key, CryptoSign(key, signable(timestamp, encoded_packet)),
           ToBytesFrom(timestamp, 8), encoded_packet)

UnsignedBuffer(key, timestamp, encoded_packet) ==
    \* the same with 64 bytes that are no signature of the key
    Buffer(key, [len |-> SIGNATURE_BYTES, by |-> <<>>, over |-> <<>>],
           ToBytesFrom(timestamp, 8), encoded_packet)

Held(data, signed) == [held |-> TRUE, data |-> data, signed |-> signed, altered |-> ""]

ReceivedBuffers ==
    LET key == PublicKeyOf[KeyText].key
    IN  {Held(SignedBuffer(key, 7, <<>>), TRUE),
         Held(SignedBuffer(key, 7, to_wire(EmptyPacket)), TRUE),
         Held(SignedBuffer(key, 7000000, to_wire(GoodPacket.packet)), TRUE),
         Held(SignedBuffer(key, 7, Zeros(MAX_ENCODED_BYTES)), TRUE),
         Held(SignedBuffer(key, 7, Zeros(MAX_ENCODED_BYTES + 1)), TRUE),
         Held(UnsignedBuffer(key, 7, <<>>), FALSE),
         Held(UnsignedBuffer(key, 7, Zeros(MAX_ENCODED_BYTES + 1)), FALSE),
         Held(Buffer(key, CryptoSign(key, signable(7, <<>>)), ToBytesFrom(7, 7), <<>>), FALSE),
         Held(Buffer(Zeros(31), [len |-> 0, by |-> <<>>, over |-> <<>>], <<>>, <<>>), FALSE),
         Held(Buffer(<<>>, [len |-> 0, by |-> <<>>, over |-> <<>>], <<>>, <<>>), FALSE)}

AlteredOffsets(data) ==
    \* the offsets whose byte is changed: in the signature, in the timestamp
    \* (the low four bytes; the model keeps timestamps below 2^31) and in the
    \* encoded packet
    {32, 95, 100, 103}
        \cup {104 + i : i \in {0, Len(data.encoded_packet) - 1} \cap (0..Len(data.encoded_packet) - 1)}

RegionOf(offset) ==
    IF offset < 32 THEN "public_key"
    ELSE IF offset < 96 THEN "signature"
    ELSE IF offset < 104 THEN "timestamp"
    ELSE "encoded_packet"

Bump(bytes, i) == [bytes EXCEPT ![i] = (@ + 1) % 128]

AlterByte(data, offset) ==
    \* data with the byte at offset replaced by another one
    IF RegionOf(offset) = "signature"
    THEN [data EXCEPT !.signature = [len |-> @.len, by |-> <<>>, over |-> <<offset>>]]
    ELSE IF RegionOf(offset) = "timestamp"
    THEN [data EXCEPT !.timestamp = Bump(@, offset - 95)]
    ELSE [data EXCEPT !.encoded_packet = Bump(@, offset - 103)]

TtlArgs == {5, 300, 86400}

TtlAnswers == {<<>>, <<10, 50, 7>>, <<400>>, <<100000, 90000>>}

WithTtls(ttls) == [packet |-> [answers |-> [i \in DOMAIN ttls |-> [ttl |-> ttls[i]]]]]

NoOperation == [op |-> "none", input |-> <<>>, result |-> <<>>]
NoBuffer ==
    [held |-> FALSE, data |-> Buffer(<<>>, [len |-> 0, by |-> <<>>, over |-> <<>>], <<>>, <<>>),
     signed |-> FALSE, altered |-> ""]
NoOutcome == [kind |-> "none", packet |-> <<>>, error |-> "", cause |-> ""]
Returned(packet, cause) == [kind |-> "return", packet |-> packet, error |-> "", cause |-> cause]
Raise(error) == [kind |-> "raise", packet |-> <<>>, error |-> error, cause |-> ""]

(***************************************************************************)
(* PkarrClient.__init__                                                    *)
(***************************************************************************)
Init ==
    /\ bootstrap_nodes \in BootstrapLists
    /\ known_nodes = Range(bootstrap_nodes)
    /\ cache = [present |-> FALSE, entries |-> Entries({}, GoodPacket, 0)]
    /\ now = 0
    /\ pc = "idle"
    /\ public_key = <<>>
    /\ max_attempts = 0
    /\ timeout = 0
    /\ nodes_to_query = {}
    /\ queried_nodes = {}
    /\ start_time = 0
    /\ attempts = 0
    /\ log = <<>>
    /\ outcome = NoOutcome
    /\ calls = 0
    /\ maintenance = "off"
    /\ made = NoOperation
    /\ buffer = NoBuffer
    /\ tasks = <<>>                  \* no lookup in flight

(***************************************************************************)
(* PkarrClient.lookup                                                      *)
(***************************************************************************)
TimeoutArgs == {0, 2, 7}

LoopConditionInclusive(frontier, n, limit, t, started, budget) ==
    \* the attempt ceiling compared with <= instead of <
    frontier # {} /\ n <= limit /\ (t - started) < budget

LoopConditionNoDeadline(frontier, n, limit, t, started, budget) ==
    \* the deadline left out of the loop condition
    frontier # {} /\ n < limit

LoopCondition(frontier, n, limit, t, started, budget) ==
    \* line 42
    frontier # {} /\ n < limit /\ (t - started) < budget

NewNodesAll(result, queried) ==
    \* the queried set not subtracted
    Range(result)

NewNodesReversed(result, queried) ==
    \* the operands of the set difference swapped
    queried \ Range(result)

NewNodes(result, queried) ==
    \* line 57
    Range(result) \ queried

CacheHitNever(c, key, t) ==
    \* the cache never consulted
    FALSE

CacheHitInclusive(c, key, t) ==
    \* the expiration compared with <= instead of <
    key \in DOMAIN c.entries /\ t <= c.entries[key].expiration

CacheHit(c, key, t) ==
    \* lines 31-32: a SignedPacket is truthy, the default (None, 0) is not
    key \in DOMAIN c.entries /\ t < c.entries[key].expiration

InitialFrontierKnown(bootstrap, known) ==
    \* the frontier seeded with everything the engine has learned
    known

InitialFrontier(bootstrap, known) ==
    \* line 36: set(self.bootstrap_nodes), a new set; self.known_nodes is not read
    Range(bootstrap)

LookupCall(key, limit, budget) ==
    \* lines 26-40
    /\ pc \in {"idle", "done"}
    /\ calls < MaxCalls
    /\ now <= MaxIdle                  \* calls start within the modelled window
    /\ calls' = calls + 1
    /\ public_key' = key
    /\ max_attempts' = limit
    /\ timeout' = budget
    /\ log' = <<>>
    /\ queried_nodes' = {}
    /\ attempts' = 0
    /\ start_time' = now
    /\ UNCHANGED <<cache, known_nodes, now, bootstrap_nodes, maintenance, made, buffer, tasks>>
    /\ LET target_key == PublicKeyOf[key]
       IN  IF ~target_key.ok
           THEN /\ pc' = "done"
                /\ outcome' = Raise(target_key.error)
                /\ nodes_to_query' = {}
           ELSE IF ~cache.present
           THEN /\ pc' = "done"
                /\ outcome' = Raise("AttributeError")
                /\ nodes_to_query' = {}
           ELSE IF CacheHit(cache, key, now)
           THEN /\ pc' = "done"
                /\ outcome' = Returned(<<cache.entries[key].packet>>, "cache")
                /\ nodes_to_query' = {}
           ELSE /\ pc' = "loop"
                /\ outcome' = NoOutcome
                /\ nodes_to_query' = InitialFrontier(bootstrap_nodes, known_nodes)

Carried(reply) ==
    \* the nodes of a reply's compact node descriptors (r.nodes), when they decode
    IF reply.kind = "dict" /\ reply.has_r /\ reply.has_nodes /\ DecodeNodes(reply.nodes).ok
    THEN Range(DecodeNodes(reply.nodes).nodes)
    ELSE {}

Peers(reply) ==
    \* the reply carries peer values (r.values)
    reply.kind = "dict" /\ reply.has_r /\ reply.has_values

AfterAwaitNotAwaited(t, d) ==
    \* the request started as a task of its own, the loop going on at once
    t

AfterAwait(t, d) ==
    \* line 50: await self._request_packet(...); the loop goes on when the
    \* request, begun at t and taking d seconds, has returned or raised
    t + d

Attempt(node, reply, result, d) ==
    \* lines 42-61: one turn of the loop, the request taking d seconds
    /\ pc = "loop"
    /\ LoopCondition(nodes_to_query, attempts, max_attempts, now, start_time, timeout)
    /\ node \in nodes_to_query
    /\ now + d <= MaxTime
    /\ queried_nodes' = queried_nodes \cup {node}
    /\ attempts' = attempts + 1
    /\ now' = AfterAwait(now, d)
    /\ known_nodes' = IF result.value = "nodes"
                      THEN UpdateKnownNodes(known_nodes, result.learned)
                      ELSE known_nodes
    /\ log' = Append(log, [node |-> node,
                           \* lines 81-87 and 111: the (host, port) given to sendto
                           address |-> IF ParseNode(node).ok
                                       THEN <<ParseNode(node).host, ParseNode(node).port>>
                                       ELSE <<>>,
                           sent |-> result.sent, kind |-> result.kind,
                           value |-> result.value, nodes |-> Range(result.nodes),
                           packet |-> result.packet, error |-> result.error,
                           y |-> IF result.sent THEN reply.y ELSE "",
                           carried |-> IF result.sent THEN Carried(reply) ELSE {},
                           peers |-> result.sent /\ Peers(reply),
                           started |-> now, finished |-> now + d,
                           fresh |-> node \notin queried_nodes])
    /\ UNCHANGED <<public_key, max_attempts, timeout, start_time, calls, bootstrap_nodes,
                   maintenance, made, buffer, tasks>>
    /\ IF result.kind = "raise"
       THEN /\ nodes_to_query' = nodes_to_query \ {node}
            /\ UNCHANGED cache
            /\ IF result.error \in PkarrErrors
               THEN UNCHANGED <<pc, outcome>>
               ELSE pc' = "done" /\ outcome' = Raise(result.error)
       ELSE IF result.value = "packet"
       THEN LET stored == CacheStore(cache, public_key, result.packet[1], now + d)
            IN  /\ nodes_to_query' = nodes_to_query \ {node}
                /\ cache' = stored.cache
                /\ pc' = "done"
                /\ outcome' = IF stored.ok THEN Returned(result.packet, "found")
                              ELSE Raise(stored.error)
       ELSE IF result.value = "nodes" /\ result.nodes # <<>>
       THEN /\ nodes_to_query' = (nodes_to_query \ {node})
                                     \cup NewNodes(result.nodes, queried_nodes')
            /\ UNCHANGED <<cache, pc, outcome>>
       ELSE /\ nodes_to_query' = nodes_to_query \ {node}
            /\ UNCHANGED <<cache, pc, outcome>>

ExitCause ==
    \* lines 66-71
    IF attempts >= max_attempts THEN "attempts"
    ELSE IF (now - start_time) >= timeout THEN "timeout"
    ELSE "frontier"

LookupExit ==
    \* lines 63-73
    /\ pc = "loop"
    /\ ~LoopCondition(nodes_to_query, attempts, max_attempts, now, start_time, timeout)
    /\ pc' = "done"
    /\ outcome' = Returned(<<>>, ExitCause)
    /\ UNCHANGED <<cache, known_nodes, now, public_key, max_attempts, timeout, nodes_to_query,
                   queried_nodes, start_time, attempts, log, calls, bootstrap_nodes,
                   maintenance, made, buffer, tasks>>

Lookup ==
    \* a caller keeps its settings from one call to the next, as resolve() does
    \E key \in KeyTexts, limit \in 0..MaxAttemptsArg, budget \in TimeoutArgs :
        /\ calls > 0 => limit = max_attempts /\ budget = timeout
        /\ LookupCall(key, limit, budget)

Tick ==
    \* time passing between two calls
    /\ pc # "loop"
    /\ calls < MaxCalls
    /\ now < MaxIdle
    /\ now' = now + 1
    /\ UNCHANGED <<cache, known_nodes, pc, public_key, max_attempts, timeout, nodes_to_query,
                   queried_nodes, start_time, attempts, log, outcome, calls, bootstrap_nodes,
                   maintenance, made, buffer, tasks>>

MaintainNetwork ==
    \* lines 217-221: the task enters its loop and sleeps; the 60 seconds of the
    \* sleep are longer than the time the model covers, and the loop has no
    \* other statement
    /\ maintenance = "off"
    /\ pc # "loop"
    /\ maintenance' = "sleeping"
    /\ UNCHANGED <<cache, known_nodes, now, pc, public_key, max_attempts, timeout,
                   nodes_to_query, queried_nodes, start_time, attempts, log, outcome, calls,
                   bootstrap_nodes, made, buffer, tasks>>

AttachCache ==
    \* the cache of the data model, which no code of the client creates
    /\ ~cache.present
    /\ pc = "idle"
    /\ \E entries \in AttachableCaches : cache' = [present |-> TRUE, entries |-> entries]
    /\ UNCHANGED <<known_nodes, now, pc, public_key, max_attempts, timeout, nodes_to_query,
                   queried_nodes, start_time, attempts, log, outcome, calls, bootstrap_nodes,
                   maintenance, made, buffer, tasks>>

(***************************************************************************)
(* The client as shipped: line 50 passes two arguments.                    *)
(***************************************************************************)
Unsent == NoDict("unsent")

AttemptShipped ==
    \E node \in nodes_to_query :
        Attempt(node, Unsent, RequestPacket(<<node, PublicKeyOf[public_key].key>>, Unsent), 0)

Next == Lookup \/ AttemptShipped \/ LookupExit \/ Tick \/ AttachCache \/ MaintainNetwork

Spec == Init /\ [][Next]_vars

(***************************************************************************)
(* The traversal with the request carried out: line 50 with the third      *)
(* argument of _request_packet supplied, the node answering with any of    *)
(* Replies.                                                                *)
(***************************************************************************)
AllNodes == {NodeA, NodeB, NodeC, NodeD, NodeNoPort, NodeWithId}

Requested ==
    [node \in AllNodes, key \in {k \in KeyTexts : PublicKeyOf[k].ok}, reply \in Replies |->
        RequestPacket(<<node, PublicKeyOf[key].key, "A">>, reply)]

Duration(reply) ==
    \* recvfrom gives up after the socket timeout; an answer takes a second
    IF reply.kind = "timeout" THEN SOCKET_TIMEOUT
    ELSE IF reply.kind = "unreachable" THEN 0
    ELSE 1

AttemptRequest ==
    \E node \in nodes_to_query, reply \in Replies :
        Attempt(node, reply, Requested[node, public_key, reply], Duration(reply))

NextRequest == Lookup \/ AttemptRequest \/ LookupExit \/ Tick \/ AttachCache

SpecRequest == Init /\ [][NextRequest]_vars

(***************************************************************************)
(* The traversal against the declared interface of _request_packet: it    *)
(* returns None, a list of nodes or a SignedPacket, or raises a PkarrError.*)
(***************************************************************************)
IfaceResults ==
    {ReturnNone(TRUE),
     Result("nodes", <<NodeC, NodeD>>, <<>>, TRUE, {NodeC, NodeD}),
     Result("nodes", <<NodeA, NodeB, NodeC>>, <<>>, TRUE, {NodeA, NodeB, NodeC}),
     Result("packet", <<>>, <<GoodPacket>>, TRUE, {}),
     Result("packet", <<>>, <<DummyPacket>>, TRUE, {}),
     Raised("DHTError", TRUE)}

AttemptIface ==
    \E node \in nodes_to_query, result \in IfaceResults :
        Attempt(node, NoDict("iface"), result, 1)

NextIface == Lookup \/ AttemptIface \/ LookupExit \/ Tick \/ AttachCache \/ MaintainNetwork

SpecIface == Init /\ [][NextIface]_vars

(***************************************************************************)
(* The operations on signed packets, applied to the packets, keys and      *)
(* buffers above.                                                          *)
(***************************************************************************)
Operation(op, input, result) ==
    /\ made' = [op |-> op, input |-> input, result |-> result]
    /\ UNCHANGED <<cache, known_nodes, now, pc, public_key, max_attempts, timeout,
                   nodes_to_query, queried_nodes, start_time, attempts, log, outcome, calls,
                   bootstrap_nodes, maintenance, tasks>>

Sign ==
    \E keypair \in Keypairs, cls \in PacketClasses, packet \in Packets :
        /\ Operation("from_packet", [keypair |-> keypair, cls |-> cls, packet |-> packet],
                     from_packet(keypair, cls, packet, now))
        /\ UNCHANGED buffer

Receive ==
    \* bytes arrive from elsewhere
    \E held \in ReceivedBuffers :
        /\ buffer' = held
        /\ Operation("receive", <<>>, <<>>)

Alter ==
    \* one byte of a signed buffer is changed before it is parsed
    /\ buffer.held /\ buffer.signed /\ buffer.altered = ""
    /\ BufferLen(buffer.data) >= MIN_SIGNED_BYTES
    /\ \E offset \in AlteredOffsets(buffer.data) :
           /\ buffer' = [buffer EXCEPT !.data = AlterByte(@, offset),
                                       !.altered = RegionOf(offset)]
           /\ Operation("alter", offset, <<>>)

FromBytes ==
    /\ buffer.held
    /\ Operation("from_bytes", buffer, from_bytes(buffer.data, now))
    /\ UNCHANGED buffer

AsBytes ==
    \E cls \in PacketClasses, sp \in {GoodPacket, DummyPacket, SignedBy(PublicKeyOf[KeyText].key, 7, <<>>)} :
        LET bytes == as_bytes(cls, sp)
        IN  /\ Operation("as_bytes", [cls |-> cls, packet |-> sp], bytes)
            /\ buffer' = IF bytes.ok THEN Held(bytes.data[1], Verified(sp)) ELSE buffer

SignAndParse ==
    \E keypair \in Keypairs, cls \in PacketClasses, packet \in Packets :
        /\ Operation("round_trip", [keypair |-> keypair, cls |-> cls, packet |-> packet],
                     RoundTrip(keypair, cls, packet, now))
        /\ UNCHANGED buffer

Ttl ==
    \E ttls \in TtlAnswers, min_ttl \in TtlArgs, max_ttl \in TtlArgs :
        /\ Operation("ttl", [ttls |-> ttls, min_ttl |-> min_ttl, max_ttl |-> max_ttl],
                     ttl(WithTtls(ttls), min_ttl, max_ttl))
        /\ UNCHANGED buffer

PeerStep ==
    \E values \in {<<PeerValue>>, <<ShortPeerValue, PeerValue>>, <<>>} :
        /\ Operation("connect_to_peers", values,
                     ConnectToPeers(values, PublicKeyOf[KeyText].key))
        /\ UNCHANGED buffer

NextPacket ==
    Sign \/ Receive \/ Alter \/ FromBytes \/ AsBytes \/ SignAndParse \/ Ttl \/ PeerStep \/ Tick

InitPacket ==
    \* an engine with two bootstrap nodes; no lookup is made
    Init /\ bootstrap_nodes = <<NodeA, NodeB>>

SpecPacket == InitPacket /\ [][NextPacket]_vars

(***************************************************************************)
(* Several lookups in flight on one engine, each on a thread of its own.   *)
(* Each has its own locals (lines 36-40); known_nodes and the cache are    *)
(* the engine's.  An attempt is two steps: the lookup pops a node and      *)
(* sends its query (lines 43-111), then waits in recvfrom (line 114),      *)
(* where the other lookups run and their waits overlap with its own; when  *)
(* the reply or the socket timeout has come it goes on to the end of the   *)
(* turn (lines 114-153, 51-61).  The shared state is touched in the second *)
(* step only, in one step of the interpreter each time (set.update at line *)
(* 209, the dict store at line 54).  On one event loop a lookup never      *)
(* suspends (its sockets block), and the lookups run one after the other,  *)
(* which is one of these interleavings.                                    *)
(***************************************************************************)
RESOLVE_TIMEOUT == 60

ConcurrentReplies ==
    \* the nodes answer; each reply comes a second after its query
    {NodesReply(CompactC \o CompactD),
     NodesReply(CompactA \o CompactB \o CompactC),
     Reply("dict", "r", TRUE, TRUE, <<PeerValue>>, TRUE, CompactC \o CompactD),
     Reply("dict", "e", TRUE, FALSE, <<>>, TRUE, CompactD)}

Task(key, limit, state, frontier, result, overlaps) ==
    \* node and sent: the node whose reply the lookup waits for, and the time
    \* its query went out
    [public_key |-> key, max_attempts |-> limit, timeout |-> RESOLVE_TIMEOUT,
     pc |-> state, nodes_to_query |-> frontier, queried_nodes |-> {}, attempts |-> 0,
     start_time |-> now, outcome |-> result, decoded |-> {}, carried |-> {},
     overlaps |-> overlaps, node |-> <<>>, sent |-> 0]

InFlight == {i \in DOMAIN tasks : tasks[i].pc # "done"}

TaskStart ==
    \* lines 26-40 for one more lookup, for a key no other lookup is for;
    \* the callers pass the same max_attempts, as resolve() does
    \E key \in {KeyText, ShortKeyText}, limit \in 1..MaxAttemptsArg :
        /\ Len(tasks) < MaxTasks
        /\ \A i \in DOMAIN tasks : tasks[i].max_attempts = limit
        /\ \A i \in DOMAIN tasks : tasks[i].public_key # key
        /\ tasks' = Append(tasks,
               IF ~cache.present
               THEN Task(key, limit, "done", {}, Raise("AttributeError"), FALSE)
               ELSE IF CacheHit(cache, key, now)
               THEN Task(key, limit, "done", {},
                         Returned(<<cache.entries[key].packet>>, "cache"), FALSE)
               ELSE Task(key, limit, "loop", InitialFrontier(bootstrap_nodes, known_nodes),
                         NoOutcome, InFlight # {}))
        /\ UNCHANGED <<cache, known_nodes, now, pc, public_key, max_attempts, timeout,
                       nodes_to_query, queried_nodes, start_time, attempts, log, outcome,
                       calls, bootstrap_nodes, maintenance, made, buffer>>

TaskSend ==
    \* lines 42-45 and 75-111 for one of the lookups: the loop test, the pop
    \* and the query sent; the lookup then waits in recvfrom
    \E i \in DOMAIN tasks :
      LET task == tasks[i]
      IN  \E node \in task.nodes_to_query :
            /\ task.pc = "loop"
            /\ LoopCondition(task.nodes_to_query, task.attempts, task.max_attempts,
                             now, task.start_time, task.timeout)
            /\ tasks' = [tasks EXCEPT ![i] =
                   [task EXCEPT !.nodes_to_query = @ \ {node},
                                !.queried_nodes = @ \cup {node},
                                !.attempts = @ + 1,
                                !.pc = "waiting", !.node = <<node>>, !.sent = now]]
            /\ UNCHANGED <<cache, known_nodes, now, pc, public_key, max_attempts, timeout,
                           nodes_to_query, queried_nodes, start_time, attempts, log,
                           outcome, calls, bootstrap_nodes, maintenance, made, buffer>>

TaskReceive ==
    \* lines 114-153 and 51-61 for a lookup that waits: recvfrom returns or
    \* times out Duration(reply) after the query went out, or as much later as
    \* the clock already is, and the turn of the loop is finished
    \E i \in {j \in DOMAIN tasks : tasks[j].pc = "waiting"}, reply \in ConcurrentReplies :
      LET task == tasks[i]
          node == task.node[1]
          due == task.sent + Duration(reply)
          at == IF now > due THEN now ELSE due
          result == Requested[node, task.public_key, reply]
          stored == CacheStore(cache, task.public_key, result.packet[1], at)
          turn == [task EXCEPT !.carried = @ \cup (IF result.sent THEN Carried(reply)
                                                   ELSE {}),
                               !.decoded = @ \cup result.learned,
                               !.pc = "loop", !.node = <<>>, !.sent = 0]
      IN  /\ at <= MaxTime
          /\ now' = at
          /\ known_nodes' = IF result.value = "nodes"
                            THEN UpdateKnownNodes(known_nodes, result.learned)
                            ELSE known_nodes
          /\ cache' = IF result.kind = "return" /\ result.value = "packet"
                      THEN stored.cache ELSE cache
          /\ tasks' = [tasks EXCEPT ![i] =
                 IF result.kind = "raise"
                 THEN IF result.error \in PkarrErrors
                      THEN turn
                      ELSE [turn EXCEPT !.pc = "done", !.outcome = Raise(result.error)]
                 ELSE IF result.value = "packet"
                 THEN [turn EXCEPT !.pc = "done",
                                   !.outcome = IF stored.ok
                                               THEN Returned(result.packet, "found")
                                               ELSE Raise(stored.error)]
                 ELSE IF result.value = "nodes" /\ result.nodes # <<>>
                 THEN [turn EXCEPT !.nodes_to_query =
                                       @ \cup NewNodes(result.nodes, task.queried_nodes)]
                 ELSE turn]
          /\ UNCHANGED <<pc, public_key, max_attempts, timeout, nodes_to_query,
                         queried_nodes, start_time, attempts, log, outcome, calls,
                         bootstrap_nodes, maintenance, made, buffer>>

TaskExit ==
    \* lines 63-73 for one of the lookups
    \E i \in DOMAIN tasks :
        LET task == tasks[i]
        IN  /\ task.pc = "loop"
            /\ ~LoopCondition(task.nodes_to_query, task.attempts, task.max_attempts,
                              now, task.start_time, task.timeout)
            /\ tasks' = [tasks EXCEPT ![i].pc = "done",
                                      ![i].outcome = Returned(<<>>,
                                          IF task.attempts >= task.max_attempts THEN "attempts"
                                          ELSE IF (now - task.start_time) >= task.timeout
                                          THEN "timeout"
                                          ELSE "frontier")]
            /\ UNCHANGED <<cache, known_nodes, now, pc, public_key, max_attempts, timeout,
                           nodes_to_query, queried_nodes, start_time, attempts, log, outcome,
                           calls, bootstrap_nodes, maintenance, made, buffer>>

NextConcurrent == TaskStart \/ TaskSend \/ TaskReceive \/ TaskExit \/ AttachCache

InitConcurrent ==
    \* an engine with two bootstrap nodes
    Init /\ bootstrap_nodes = <<NodeA, NodeB>>

SpecConcurrent == InitConcurrent /\ [][NextConcurrent]_vars

(***************************************************************************)
(* Keys, names and times: PublicKey.__init__ as a whole, z-base-32         *)
(* encoding, and the methods of SignedPacket that read the clock.  A str   *)
(* or None is held as <<text>> or <<>>; a clock reading is in microseconds,*)
(* as int(time.time() * 1_000_000) gives it.                               *)
(***************************************************************************)
PublicKeyInit(input) ==
    \* public_key.py lines 5-16: the isinstance tests in their order
    IF input.type = "str" THEN PublicKeyFromStr(input.value)
    ELSE IF input.type = "bytes" THEN PublicKeyFromBytes(input.value)
    ELSE [ok |-> FALSE, error |-> "PublicKeyError", key |-> <<>>]

RECURSIVE Z32EncodeFrom(_, _, _, _)
Z32EncodeFrom(data, i, bits, value) ==
    \* the loop of z_base_32_encode from byte i on; value is kept below 2^bits,
    \* which leaves every (value >> bits) & 31 as the code computes it
    LET symbol(n) == Z32Alphabet[(n % 32) + 1]
    IN  IF i > Len(data)
        THEN IF bits > 0 THEN <<symbol(value * Pow2(5 - bits))>> ELSE <<>>
        ELSE LET v == value * 256 + data[i]
                 b == bits + 8
             IN  IF b >= 10
                 THEN <<symbol(v \div Pow2(b - 5)), symbol(v \div Pow2(b - 10))>>
                          \o Z32EncodeFrom(data, i + 1, b - 10, v % Pow2(b - 10))
                 ELSE <<symbol(v \div Pow2(b - 5))>>
                          \o Z32EncodeFrom(data, i + 1, b - 5, v % Pow2(b - 5))

z_base_32_encode(data) == Z32EncodeFrom(data, 1, 0, 0)

KeyClasses == {"public_key.PublicKey", "signed_packet.PublicKey"}

to_z32(cls, key) ==
    \* public_key.py lines 33-34; the PublicKey of signed_packet.py has a body
    \* of pass and gives None
    IF cls = "public_key.PublicKey" THEN <<z_base_32_encode(key)>> ELSE <<>>

normalize_name(origin, name) ==
    \* lines 129-141
    LET stripped == IF name # <<>> /\ name[Len(name)] = "."
                    THEN SubSeq(name, 1, Len(name) - 1) ELSE name
        parts == Split(stripped, ".")
        last == parts[Len(parts)]
        formatted == IF origin = <<>> THEN <<"N", "o", "n", "e">> ELSE origin[1]
    IN  IF <<last>> = origin THEN <<stripped>>
        ELSE IF last \in {<<"@">>, <<>>} THEN origin
        ELSE <<stripped \o <<".">> \o formatted>>   \* f"{name}.{origin}"

resource_records(cls, sp, name) ==
    \* lines 97-100
    LET origin == to_z32(cls, sp.public_key)
        normalized_name == normalize_name(origin, name)
    IN  SelectSeq(sp.packet.answers, LAMBDA rr : rr.name = normalized_name)

fresh_resource_records_inclusive(cls, sp, name, t) ==
    \* a record kept while its TTL is at least the seconds counted
    LET origin == to_z32(cls, sp.public_key)
        normalized_name == normalize_name(origin, name)
        current_time == t \div MICROSECONDS
    IN  SelectSeq(sp.packet.answers,
                  LAMBDA rr : /\ rr.name = normalized_name
                              /\ rr.ttl >= current_time - (sp.last_seen \div MICROSECONDS))

fresh_resource_records(cls, sp, name, t) ==
    \* lines 102-109 at the clock reading t: int(time.time()) against
    \* last_seen // 1_000_000
    LET origin == to_z32(cls, sp.public_key)
        normalized_name == normalize_name(origin, name)
        current_time == t \div MICROSECONDS
    IN  SelectSeq(sp.packet.answers,
                  LAMBDA rr : /\ rr.name = normalized_name
                              /\ rr.ttl > current_time - (sp.last_seen \div MICROSECONDS))

elapsed(sp, t) ==
    \* lines 122-123 at the clock reading t; // rounds down
    (t - sp.last_seen) \div MICROSECONDS

expires_in_unfloored(sp, min_ttl, max_ttl, t) ==
    \* the difference without the max(0, ...)
    ttl(sp, min_ttl, max_ttl) - elapsed(sp, t)

expires_in(sp, min_ttl, max_ttl, t) ==
    \* lines 111-114 at the clock reading t
    LET left == ttl(sp, min_ttl, max_ttl) - elapsed(sp, t)
    IN  IF 0 > left THEN 0 ELSE left

\* the inputs
ClockParts == {0, 500000}

LastSeen == {0, 500000, 2500000}

Named(name, record_ttl) == [name |-> name, ttl |-> record_ttl]

RecordAnswers ==
    LET www == <<"w", "w", "w", ".">>
    IN  <<Named(<<KeyText>>, 1), Named(<<KeyText>>, 2), Named(<<www \o KeyText>>, 2),
          Named(<<KeyText>>, 5), Named(<<>>, 2), Named(<<www \o <<"N", "o", "n", "e">>>>, 3)>>

Constructed(answers, last_seen) ==
    \* SignedPacket(public_key, signature, timestamp, packet, last_seen)
    SignedPacketInit(<<PublicKeyOf[KeyText].key, DummySignature, 0, [answers |-> answers],
                       last_seen>>).packet[1]

RecordNames ==
    {<<"@">>, <<>>, <<"w", "w", "w">>, <<"w", "w", "w", ".">>,
     <<"w", "w", "w", ".">> \o KeyText, <<"a", ".", "@">>}

NewPublicKey ==
    \E input \in
    {[type |-> "str", value |-> KeyText], [type |-> "str", value |-> ShortKeyText],
     [type |-> "str", value |-> ForeignKeyText], [type |-> "str", value |-> <<>>],
     [type |-> "str", value |-> KeyText \o <<"y">>],
     [type |-> "str", value |-> z_base_32_encode([i \in 1..KEY_BYTES |-> i])],
     [type |-> "bytes", value |-> Zeros(KEY_BYTES)],
     [type |-> "bytes", value |-> [i \in 1..KEY_BYTES |-> i]],
     [type |-> "bytes", value |-> Zeros(KEY_BYTES - 1)],
     [type |-> "bytes", value |-> Zeros(KEY_BYTES + 1)], [type |-> "bytes", value |-> <<>>],
     [type |-> "bytearray", value |-> Zeros(KEY_BYTES)], [type |-> "int", value |-> <<>>]} :
        /\ Operation("PublicKey", input, PublicKeyInit(input))
        /\ UNCHANGED buffer

ExpiresIn ==
    \E ttls \in {<<>>, <<1>>, <<5, 2>>}, last_seen \in LastSeen, min_ttl \in {0, 2, 300},
       max_ttl \in {0, 2, 300}, part \in ClockParts :
        LET sp == Constructed([i \in DOMAIN ttls |-> Named(<<KeyText>>, ttls[i])], last_seen)
            t == now * MICROSECONDS + part
        IN  /\ Operation("expires_in",
                         [sp |-> sp, min_ttl |-> min_ttl, max_ttl |-> max_ttl, at |-> t],
                         expires_in(sp, min_ttl, max_ttl, t))
            /\ UNCHANGED buffer

ResourceRecords ==
    \E cls \in KeyClasses, last_seen \in LastSeen, name \in RecordNames :
        LET sp == Constructed(RecordAnswers, last_seen)
        IN  /\ Operation("resource_records", [cls |-> cls, sp |-> sp, name |-> name],
                         resource_records(cls, sp, name))
            /\ UNCHANGED buffer

FreshRecords ==
    \E cls \in KeyClasses, last_seen \in LastSeen, name \in RecordNames, part \in ClockParts :
        LET sp == Constructed(RecordAnswers, last_seen)
            t == now * MICROSECONDS + part
        IN  /\ Operation("fresh_resource_records",
                         [cls |-> cls, sp |-> sp, name |-> name, at |-> t],
                         fresh_resource_records(cls, sp, name, t))
            /\ UNCHANGED buffer

NextData == NewPublicKey \/ ExpiresIn \/ ResourceRecords \/ FreshRecords \/ Tick

SpecData == InitPacket /\ [][NextData]_vars

(***************************************************************************)
(* Observations used by the properties.                                    *)
(***************************************************************************)
Last == log[Len(log)]

Sent == {i \in DOMAIN log : log[i].sent}

ValidKey(key) == PublicKeyOf[key].ok /\ Len(PublicKeyOf[key].key) = KEY_BYTES

(***************************************************************************)
(* C1 (SpecIface).  Whatever the per-node requests hand back, verified or  *)
(* not, a value returned by lookup is not-found or a packet whose          *)
(* signature verifies over signable(timestamp, encoded packet), and the    *)
(* cache holds verified packets only.                                      *)
(***************************************************************************)
LookupReturnsVerified ==
    /\ outcome.kind = "return" => \A i \in DOMAIN outcome.packet : Verified(outcome.packet[i])
    /\ \A k \in DOMAIN cache.entries : Verified(cache.entries[k].packet)

\* C1 witness: a lookup has ended after a request handed it an unverified packet
UnverifiedPacketOffered ==
    pc = "done" /\ log # <<>> /\ Last.value = "packet" /\ ~Verified(Last.packet[1])

(***************************************************************************)
(* C2 (Spec).  A lookup called while the cache holds an entry for the key  *)
(* with now < expiration ends at once with that packet and with no attempt.*)
(***************************************************************************)
FreshEntryIsReturned ==
    [][(/\ calls' = calls + 1
        /\ cache.present
        /\ PublicKeyOf[public_key'].ok
        /\ public_key' \in DOMAIN cache.entries
        /\ now < cache.entries[public_key'].expiration)
       => (/\ pc' = "done"
           /\ outcome' = Returned(<<cache.entries[public_key'].packet>>, "cache")
           /\ log' = <<>>
           /\ attempts' = 0)]_vars

\* C2 witness: a lookup served from the cache, the second of two for the same key
ServedFromCache ==
    pc = "done" /\ calls = 2 /\ outcome.kind = "return" /\ outcome.cause = "cache" /\ log = <<>>

(***************************************************************************)
(* C3 (SpecRequest), as claimed.  Within one lookup each host:port is sent *)
(* at most one get_peers query, whatever the replies list.                 *)
(***************************************************************************)
NoHostPortQueriedTwice ==
    \A i, j \in DOMAIN log :
        (i < j /\ log[i].sent /\ log[j].sent) => log[i].address # log[j].address

(***************************************************************************)
(* C3 (SpecRequest), amended.  Within one lookup no node text is the       *)
(* target of two attempts, whatever the replies list; and when every       *)
(* bootstrap node is written ip:port, the way decoded nodes are written,   *)
(* each host:port is sent at most one get_peers query.                     *)
(***************************************************************************)
RECURSIVE DecValue(_)
DecValue(s) ==
    \* the number a string of decimal digits stands for
    IF s = <<>> THEN 0
    ELSE DecValue(SubSeq(s, 1, Len(s) - 1)) * 10
             + (CHOOSE d \in 0..9 : Digits[d + 1] = s[Len(s)])

DecodedSpelling(node) ==
    \* node is the text _decode_nodes writes for its address
    LET parsed == ParseNode(node)
        parts == Split(parsed.host, ".")
    IN  /\ parsed.ok
        /\ Len(parts) = 4
        /\ \A i \in 1..4 : IsInt(parts[i])
        /\ node = NodeText([i \in 1..4 |-> DecValue(parts[i])], DecValue(parsed.port))

NoNodeTextQueriedTwice ==
    /\ \A i, j \in DOMAIN log : i < j => log[i].node # log[j].node
    /\ \A i \in DOMAIN log : log[i].fresh
    /\ (\A n \in Range(bootstrap_nodes) : DecodedSpelling(n)) => NoHostPortQueriedTwice

\* C3 witness: the bootstrap nodes are written ip:port, the first reply listed
\* the replying node itself, and the second attempt went to a node of that reply
ReplyListedQueriedNode ==
    /\ \A n \in Range(bootstrap_nodes) : DecodedSpelling(n)
    /\ Len(log) = 2
    /\ log[1].value = "nodes"
    /\ log[1].node \in log[1].nodes
    /\ log[2].node \in log[1].nodes
    /\ log[2].sent

(***************************************************************************)
(* C4 (Spec).  An error raised by the request to one node does not end the *)
(* lookup with that error.                                                 *)
(***************************************************************************)
NodeErrorsStayInside ==
    (log # <<>> /\ Last.kind = "raise") => outcome.kind # "raise"

(***************************************************************************)
(* C5 (SpecRequest).  The attempt counter never exceeds max_attempts, nor  *)
(* does the number of queries sent; with max_attempts = 0 there is none.   *)
(***************************************************************************)
AttemptsWithinCeiling ==
    /\ attempts <= max_attempts
    /\ Cardinality(Sent) <= max_attempts
    /\ Len(log) = attempts

\* C5 witness: a lookup stopped by the ceiling with nodes left in the frontier
StoppedByCeiling ==
    /\ pc = "done"
    /\ outcome.cause = "attempts"
    /\ max_attempts > 0
    /\ attempts = max_attempts
    /\ nodes_to_query # {}

(***************************************************************************)
(* C6 (SpecRequest).  Every attempt starts before start_time + timeout.    *)
(***************************************************************************)
AttemptsStartBeforeDeadline ==
    \A i \in DOMAIN log : log[i].started < start_time + timeout

\* C6 witness: a lookup stopped by the deadline, below the attempt ceiling and
\* with nodes left in the frontier
StoppedByDeadline ==
    /\ pc = "done"
    /\ outcome.cause = "timeout"
    /\ log # <<>>
    /\ attempts < max_attempts
    /\ nodes_to_query # {}

(***************************************************************************)
(* C7 (Spec).  A lookup for a valid key ends by returning (a packet or     *)
(* not-found).                                                             *)
(***************************************************************************)
LookupReturns ==
    (pc = "done" /\ ValidKey(public_key)) => outcome.kind = "return"

(***************************************************************************)
(* C8 (SpecIface).  When an attempt yields a packet, the lookup returns it *)
(* and the cache maps the key text to that packet, expiring at the time of *)
(* storing plus ttl(300, 86400).                                           *)
(***************************************************************************)
FoundPacketIsCached ==
    (pc = "done" /\ log # <<>> /\ Last.value = "packet")
    => /\ outcome = Returned(Last.packet, "found")
       /\ public_key \in DOMAIN cache.entries
       /\ cache.entries[public_key].packet = Last.packet[1]
       /\ cache.entries[public_key].expiration
              = Last.started + 1 + ttl(Last.packet[1], DEFAULT_MINIMUM_TTL, DEFAULT_MAXIMUM_TTL)

(***************************************************************************)
(* C9 (SpecIface).  Bootstrap {A, B}; A answers with the nodes {C, D}; C   *)
(* yields a valid packet: the lookup returns that packet after exactly two *)
(* attempts and has cached it.                                             *)
(***************************************************************************)
ScenarioReturnsPacket ==
    (/\ Range(bootstrap_nodes) = {NodeA, NodeB}
     /\ Len(log) >= 2
     /\ log[1].node = NodeA /\ log[1].value = "nodes" /\ log[1].nodes = {NodeC, NodeD}
     /\ log[2].node = NodeC /\ log[2].value = "packet" /\ Verified(log[2].packet[1]))
    => /\ pc = "done"
       /\ attempts = 2
       /\ outcome = Returned(log[2].packet, "found")
       /\ public_key \in DOMAIN cache.entries
       /\ cache.entries[public_key].packet = log[2].packet[1]

OnlyErrorReplies == log # <<>> /\ \A i \in DOMAIN log : log[i].sent /\ log[i].y = "e"

ErrorRepliesExhaustFrontier ==
    OnlyErrorReplies
    => /\ nodes_to_query \cup queried_nodes = Range(bootstrap_nodes)
       /\ \A i, j \in DOMAIN log : i < j => log[i].node # log[j].node
       /\ attempts <= Cardinality(Range(bootstrap_nodes))
       /\ attempts <= max_attempts
       /\ pc = "done" => outcome.kind = "return" /\ outcome.packet = <<>>
       /\ (pc = "done" /\ outcome.cause = "frontier") => queried_nodes = Range(bootstrap_nodes)

\* C11 witness: every bootstrap node answered with an error reply, one of them
\* carrying node descriptors, and the lookup ended for want of nodes
ErrorRepliesFromAll ==
    /\ pc = "done"
    /\ OnlyErrorReplies
    /\ outcome.cause = "frontier"
    /\ queried_nodes = Range(bootstrap_nodes)
    /\ \E i \in DOMAIN log : log[i].carried # {}

(***************************************************************************)
(* C12 (SpecIface).  Once the engine has a cache, a step changes it only   *)
(* if that step ends a lookup by returning the packet it found; no step    *)
(* removes an entry.                                                       *)
(***************************************************************************)
CacheChangesOnSuccessOnly ==
    [][(cache.present /\ cache' # cache)
       => (/\ outcome'.kind = "return"
           /\ outcome'.cause = "found"
           /\ DOMAIN cache.entries \subseteq DOMAIN cache'.entries
           /\ \A k \in DOMAIN cache.entries \ {public_key} : cache'.entries[k] = cache.entries[k])]_vars

\* C12 witness: with an expired entry in the cache and the maintenance task
\* started, a lookup for another key has returned not-found after an attempt
NotFoundBesideExpiredEntry ==
    /\ pc = "done"
    /\ maintenance = "sleeping"
    /\ outcome.kind = "return" /\ outcome.packet = <<>>
    /\ log # <<>>
    /\ \E k \in DOMAIN cache.entries : k # public_key /\ cache.entries[k].expiration <= now

(***************************************************************************)
(* C13 (Spec).  A lookup served from the cache started before the entry's  *)
(* expiration; a lookup called at or after the expiration of the entry for *)
(* its key enters the traversal with the bootstrap set as its frontier.    *)
(***************************************************************************)
ExpiredEntryIsIgnored ==
    /\ [](outcome.cause = "cache" => start_time < cache.entries[public_key].expiration)
    /\ [][(/\ calls' = calls + 1
           /\ cache.present
           /\ PublicKeyOf[public_key'].ok
           /\ public_key' \in DOMAIN cache.entries
           /\ now >= cache.entries[public_key'].expiration)
          => (/\ pc' = "loop"
              /\ outcome' = NoOutcome
              /\ nodes_to_query' = Range(bootstrap_nodes)
              /\ queried_nodes' = {})]_vars

\* C13 witness: a lookup called at the very instant its entry expires
CalledAtExpiration ==
    /\ pc = "loop"
    /\ attempts = 0
    /\ cache.present
    /\ public_key \in DOMAIN cache.entries
    /\ start_time = cache.entries[public_key].expiration

(***************************************************************************)
(* C14 (Spec).  A lookup called with a key text that is not z-base-32 or   *)
(* does not decode to 32 bytes ends with PublicKeyError, with no attempt.  *)
(***************************************************************************)
InvalidKeyIsRejected ==
    (calls > 0 /\ ~ValidKey(public_key))
    => /\ pc = "done" => outcome = Raise("PublicKeyError")
       /\ pc # "loop"
       /\ log = <<>>

(***************************************************************************)
(* C15 (SpecPacket), as claimed.  from_bytes fails on a buffer under 104   *)
(* or over 1104 bytes without reaching the signature check, and gives a    *)
(* signed packet for a buffer of exactly 104 bytes that carries the        *)
(* signature of its key over the empty encoded packet.                     *)
(***************************************************************************)
LengthBoundsOfFromBytes ==
    made.op = "from_bytes"
    => LET n == BufferLen(made.input.data)
       IN  /\ (n < MIN_SIGNED_BYTES \/ n > MAX_SIGNED_BYTES)
                  => ~made.result.ok /\ ~made.result.checked
           /\ (n = MIN_SIGNED_BYTES /\ made.input.signed /\ made.input.altered = "")
                  => made.result.ok

(***************************************************************************)
(* C16 (SpecPacket).  from_bytes gives no signed packet for a signed       *)
(* buffer of which one byte of the signature, the timestamp or the encoded *)
(* packet was changed.                                                     *)
(***************************************************************************)
AlteredBytesAreRejected ==
    (made.op = "from_bytes" /\ made.input.signed /\ made.input.altered # "")
    => ~made.result.ok /\ made.result.packet = <<>>

\* C16 witness: from_bytes was applied to a signed buffer with a changed
\* signature byte and with the encoded packet of a packet with records
AlteredSignatureParsed ==
    /\ made.op = "from_bytes"
    /\ made.input.signed
    /\ made.input.altered = "signature"
    /\ Len(made.input.data.encoded_packet) > 12
    /\ ~made.result.ok

(***************************************************************************)
(* C17 (SpecPacket), as claimed.  Signing a packet whose encoding is at    *)
(* most 1000 bytes, taking the bytes and parsing them gives a signed       *)
(* packet with the records, the key and the timestamp of the signed one.   *)
(***************************************************************************)
RoundTripGivesSamePacket ==
    (made.op = "round_trip" /\ Len(to_wire(made.input.packet)) <= MAX_ENCODED_BYTES)
    => /\ made.result.ok
       /\ made.result.packet[1].packet.answers = made.input.packet.answers
       /\ made.result.packet[1].public_key = made.input.keypair.public_key
       /\ made.result.packet[1].timestamp = now * MICROSECONDS

(***************************************************************************)
(* C18 (SpecPacket), as claimed.  For every min_ttl and max_ttl the result *)
(* of ttl lies in [min_ttl, max_ttl]; it is min_ttl without records and    *)
(* the smallest record TTL clamped to the range otherwise.                 *)
(***************************************************************************)
Clamp(x, lo, hi) == IF x < lo THEN lo ELSE IF x > hi THEN hi ELSE x

Smallest(ttls) == CHOOSE t \in Range(ttls) : \A u \in Range(ttls) : t <= u

TtlAsClaimed(ttls, min_ttl, max_ttl, result) ==
    /\ min_ttl <= result /\ result <= max_ttl
    /\ ttls = <<>> => result = min_ttl
    /\ ttls # <<>> => result = Clamp(Smallest(ttls), min_ttl, max_ttl)

TtlWithinAnyBounds ==
    made.op = "ttl"
    => TtlAsClaimed(made.input.ttls, made.input.min_ttl, made.input.max_ttl, made.result)

(***************************************************************************)
(* C18 (SpecPacket), amended.  The same for min_ttl <= max_ttl.            *)
(***************************************************************************)
TtlWithinOrderedBounds ==
    (made.op = "ttl" /\ made.input.min_ttl <= made.input.max_ttl)
    => TtlAsClaimed(made.input.ttls, made.input.min_ttl, made.input.max_ttl, made.result)

\* C18 witness: records with TTLs 10, 50 and 7 between 300 and 86400 give 300
TtlOfExample ==
    /\ made.op = "ttl"
    /\ made.input = [ttls |-> <<10, 50, 7>>, min_ttl |-> 300, max_ttl |-> 86400]
    /\ made.result = 300

(***************************************************************************)
(* C19 (SpecPacket), as claimed.  A signed packet made by from_packet,     *)
(* from_bytes or the peer step has a signature of 64 bytes and an encoded  *)
(* packet of at most 1000 bytes; from_packet fails with the error for a    *)
(* packet too large when the encoding of its packet is over 1000 bytes.    *)
(***************************************************************************)
SignedPacketsWithinSize ==
    /\ (made.op \in {"from_packet", "from_bytes"} /\ made.result.ok)
           => /\ made.result.packet[1].signature.len = SIGNATURE_BYTES
              /\ Len(to_wire(made.result.packet[1].packet)) <= MAX_ENCODED_BYTES
    /\ (made.op = "connect_to_peers" /\ made.result.packet # <<>>)
           => made.result.packet[1].signature.len = SIGNATURE_BYTES
    /\ (made.op = "from_packet" /\ Len(to_wire(made.input.packet)) > MAX_ENCODED_BYTES)
           => /\ ~made.result.ok
              /\ made.result.error \in {"ValueError", "PacketTooLarge"}
              /\ made.result.detail = "Packet too large"

(***************************************************************************)
(* C20 (SpecConcurrent), as claimed.  When the lookups for different keys  *)
(* have all returned, known_nodes holds every node decoded from a reply of *)
(* any of them, and the cache holds an entry for every key whose lookup    *)
(* returned a packet.                                                      *)
(***************************************************************************)
AllReturned ==
    /\ Len(tasks) >= 2
    /\ \A i \in DOMAIN tasks : tasks[i].pc = "done" /\ tasks[i].outcome.kind = "return"

Outstanding(t) == {k \in DOMAIN log : log[k].started <= t /\ t < log[k].finished}

OneRequestAtATime ==
    /\ \A t \in 0..MaxTime : Cardinality(Outstanding(t)) <= 1
    /\ \A k \in 1..(Len(log) - 1) : log[k].finished <= log[k + 1].started
    /\ (pc = "loop" /\ log # <<>>) => Last.finished <= now

\* C21 witness: a request that ran into the socket timeout was followed by a
\* request that a node answered with nodes
SecondRequestAfterTimeout ==
    /\ Len(log) >= 2
    /\ log[1].finished = log[1].started + SOCKET_TIMEOUT
    /\ log[2].value = "nodes"
    /\ log[2].finished > log[2].started

(***************************************************************************)
(* C24 (SpecIface).  Once an attempt yields a verified packet the lookup   *)
(* stops: that attempt is the last one and the lookup returns the packet.  *)
(***************************************************************************)
VerifiedPacketStopsLookup ==
    \A k \in DOMAIN log :
        (log[k].value = "packet" /\ Verified(log[k].packet[1]))
        => /\ k = Len(log)
           /\ pc = "done"
           /\ outcome = Returned(log[k].packet, "found")

(***************************************************************************)
(* C26 (SpecRequest).  At every point of a lookup the attempt counter      *)
(* equals the number of distinct nodes in the queried set, and the         *)
(* frontier and the queried set are disjoint.                              *)
(***************************************************************************)
AttemptsCountQueriedNodes ==
    /\ attempts = Cardinality(queried_nodes)
    /\ nodes_to_query \cap queried_nodes = {}

\* C26 witness: two attempts made, nodes left in the frontier, and a reply
\* named a node that had been queried
TwoQueriedAndFrontierLeft ==
    /\ pc = "loop"
    /\ attempts = 2
    /\ nodes_to_query # {}
    /\ \E k \in DOMAIN log : log[k].value = "nodes" /\ log[k].nodes \cap queried_nodes # {}

(***************************************************************************)
(* C27 (SpecRequest).  A lookup that misses the cache starts with the      *)
(* frontier equal to the bootstrap node set, an empty queried set and      *)
(* attempts = 0, whatever the engine has learned and whatever the call     *)
(* before left; no step changes the bootstrap node set.                    *)
(***************************************************************************)
LookupStartsFromBootstrap ==
    [][/\ (pc # "loop" /\ pc' = "loop")
           => /\ nodes_to_query' = Range(bootstrap_nodes)
              /\ queried_nodes' = {}
              /\ attempts' = 0
       /\ bootstrap_nodes' = bootstrap_nodes]_vars

\* C27 witness: a second lookup has started after the first one learned nodes
\* that are not bootstrap nodes
SecondLookupAfterDiscovery ==
    /\ calls = 2
    /\ pc = "loop"
    /\ attempts = 0
    /\ known_nodes \ Range(bootstrap_nodes) # {}
    /\ nodes_to_query = Range(bootstrap_nodes)

(***************************************************************************)
(* C22 (SpecData).  A PublicKey that is constructed holds exactly 32 raw   *)
(* bytes, whether it was made from bytes or from a z-base-32 string of any *)
(* length; every other construction fails with PublicKeyError.             *)
(***************************************************************************)
ConstructedKeysAre32Bytes ==
    made.op = "PublicKey"
    => IF made.result.ok THEN Len(made.result.key) = KEY_BYTES
       ELSE made.result.error = "PublicKeyError"

(***************************************************************************)
(* C23 (SpecData).  expires_in(min_ttl, max_ttl) is                        *)
(* max(0, ttl(min_ttl, max_ttl) - elapsed()): never negative, not larger   *)
(* at any later clock reading, and 0 at every reading at which elapsed()   *)
(* has reached ttl(min_ttl, max_ttl).                                      *)
(***************************************************************************)
ClockReadings == {second * MICROSECONDS + part : second \in 0..MaxTime, part \in ClockParts}

ExpiresInCountsDown ==
    made.op = "expires_in"
    => LET sp == made.input.sp
           lo == made.input.min_ttl
           hi == made.input.max_ttl
           lifetime == ttl(sp, lo, hi)
           age == elapsed(sp, made.input.at)
       IN  /\ made.result = (IF lifetime - age > 0 THEN lifetime - age ELSE 0)
           /\ made.result >= 0
           /\ age >= lifetime => made.result = 0
           /\ \A t \in ClockReadings :
                  /\ t >= made.input.at => expires_in(sp, lo, hi, t) <= made.result
                  /\ elapsed(sp, t) >= lifetime => expires_in(sp, lo, hi, t) = 0

\* C23 witness: expires_in gave 0 for a packet with records, seen at a
\* sub-second instant, whose TTL had run out
ExpiredPacketAsked ==
    /\ made.op = "expires_in"
    /\ made.result = 0
    /\ made.input.sp.packet.answers # <<>>
    /\ made.input.sp.last_seen % MICROSECONDS # 0
    /\ ttl(made.input.sp, made.input.min_ttl, made.input.max_ttl) > 0
    /\ elapsed(made.input.sp, made.input.at)
           >= ttl(made.input.sp, made.input.min_ttl, made.input.max_ttl)

(***************************************************************************)
(* C25 (SpecData), as claimed.  fresh_resource_records(name) is exactly    *)
(* the records of resource_records(name) whose TTL is greater than the     *)
(* whole seconds elapsed since last_observed, elapsed().                   *)
(***************************************************************************)
FreshRecordsByElapsed ==
    made.op = "fresh_resource_records"
    => LET i == made.input
       IN  made.result = SelectSeq(resource_records(i.cls, i.sp, i.name),
                                   LAMBDA rr : rr.ttl > elapsed(i.sp, i.at))

(***************************************************************************)
(* C25 (SpecData), amended.  fresh_resource_records(name) is exactly the   *)
(* records of resource_records(name) whose TTL is greater than the clock   *)
(* in whole seconds minus last_observed in whole seconds, a count that is  *)
(* elapsed() or elapsed() + 1; it holds records of resource_records(name)  *)
(* only and no record whose TTL has elapsed.                               *)
(***************************************************************************)
FreshRecordsByTruncatedClock ==
    made.op = "fresh_resource_records"
    => LET i == made.input
           all == resource_records(i.cls, i.sp, i.name)
           seconds == (i.at \div MICROSECONDS) - (i.sp.last_seen \div MICROSECONDS)
       IN  /\ made.result = SelectSeq(all, LAMBDA rr : rr.ttl > seconds)
           /\ seconds \in {elapsed(i.sp, i.at), elapsed(i.sp, i.at) + 1}
           /\ Range(made.result) \subseteq Range(all)
           /\ \A k \in DOMAIN made.result : made.result[k].ttl > elapsed(i.sp, i.at)

\* C25 witness: of the records under the origin's own name ('@') some were
\* fresh and some were left out, the packet seen at a sub-second instant
SomeRecordsFresh ==
    /\ made.op = "fresh_resource_records"
    /\ made.input.cls = "public_key.PublicKey"
    /\ made.input.name = <<"@">>
    /\ made.input.sp.last_seen % MICROSECONDS # 0
    /\ made.result # <<>>
    /\ Len(made.result) < Len(resource_records(made.input.cls, made.input.sp, made.input.name))

====
